---- MODULE Spec2Model ----
(***************************************************************************)
(* Model of list_github_workflow_and_dependency_files.py: a script that    *)
(* clones or pulls a repository, walks its tree once and reports workflow  *)
(* files and dependency manifests.                                         *)
(*                                                                         *)
(* Python strings are modelled as sequences of one-character strings, so   *)
(* that rstrip, split, replace, startswith and endswith are computed the   *)
(* way the interpreter computes them.  A path inside a tree is a sequence  *)
(* of components (each a character sequence); POSIX separators.            *)
(* Scope: the git executable can be launched and stdout is writable.       *)
(***************************************************************************)
EXTENDS Naturals, Integers, Sequences, FiniteSets

VARIABLES
    pc,               \* position of the script
    argv,             \* sys.argv[1:], a sequence of strings
    REPO_NAME,        \* line 10
    disk,             \* working directory: directory name -> tree (set of file paths)
    cmds,             \* subprocesses invoked so far (subprocess.run calls)
    returncode,       \* result.returncode of the subprocess, -1 before any
    stack,            \* os.walk: directories still to be scanned
    visited,          \* os.walk: directories scanned so far
    workflow_files,   \* line 33
    dependency_files, \* line 34
    out,              \* lines printed to stdout
    exit_status       \* process exit status, -1 while running

vars == <<pc, argv, REPO_NAME, disk, cmds, returncode, stack, visited,
          workflow_files, dependency_files, out, exit_status>>

----------------------------------------------------------------------------
(* Bounds *)

MaxFiles == 3

MaxUrlTokens == 3

----------------------------------------------------------------------------
(* Python str methods on character sequences *)

Last(s) == s[Len(s)]

startswith(s, p) == Len(s) >= Len(p) /\ SubSeq(s, 1, Len(p)) = p

endswith(s, p) == Len(s) >= Len(p) /\ SubSeq(s, Len(s) - Len(p) + 1, Len(s)) = p

RECURSIVE rstrip(_, _)
rstrip(s, c) ==
    IF s # <<>> /\ Last(s) = c THEN rstrip(SubSeq(s, 1, Len(s) - 1), c) ELSE s

RECURSIVE split(_, _)
split(s, c) ==
    IF \E i \in 1..Len(s) : s[i] = c
    THEN LET i == CHOOSE k \in 1..Len(s) : s[k] = c /\ \A j \in 1..(k - 1) : s[j] # c
         IN  <<SubSeq(s, 1, i - 1)>> \o split(SubSeq(s, i + 1, Len(s)), c)
    ELSE <<s>>

RECURSIVE replace(_, _, _)
replace(s, old, new) ==
    IF Len(s) < Len(old) THEN s
    ELSE IF startswith(s, old)
         THEN new \o replace(SubSeq(s, Len(old) + 1, Len(s)), old, new)
         ELSE <<Head(s)>> \o replace(Tail(s), old, new)

RECURSIVE join(_, _)
join(parts, sep) ==
    IF parts = <<>> THEN <<>>
    ELSE IF Len(parts) = 1 THEN parts[1]
    ELSE parts[1] \o sep \o join(Tail(parts), sep)

RECURSIVE Flatten(_)
Flatten(ss) == IF ss = <<>> THEN <<>> ELSE Head(ss) \o Flatten(Tail(ss))

----------------------------------------------------------------------------
(* Program constants *)

Slash == <<"/">>

DotGit == <<".", "g", "i", "t">>

DotYml == <<".", "y", "m", "l">>

DotYaml == <<".", "y", "a", "m", "l">>

WORKFLOW_DIR ==
    <<".", "g", "i", "t", "h", "u", "b", "/", "w", "o", "r", "k", "f", "l", "o", "w", "s">>

DEPENDENCY_FILES == {
    <<"p","a","c","k","a","g","e",".","j","s","o","n">>,
    <<"r","e","q","u","i","r","e","m","e","n","t","s",".","t","x","t">>,
    <<"P","i","p","f","i","l","e">>,
    <<"y","a","r","n",".","l","o","c","k">>,
    <<"p","o","e","t","r","y",".","l","o","c","k">>,
    <<"G","e","m","f","i","l","e">>,
    <<"c","o","m","p","o","s","e","r",".","j","s","o","n">>,
    <<"C","a","r","g","o",".","t","o","m","l">>,
    <<"g","o",".","m","o","d">>,
    <<"e","n","v","i","r","o","n","m","e","n","t",".","y","m","l">>,
    <<"e","n","v",".","y","m","l">>,
    <<"s","e","t","u","p",".","p","y">> }

----------------------------------------------------------------------------
(* Lines 5-10: the URL argument and the derived directory name *)

HasArg(a) == Len(a) > 0

\* mutant: `if REPO_URL is None`
NotRepoUrl_NoneOnly(a) == ~HasArg(a)

\* `not REPO_URL`: None (no argument) or the empty string
NotRepoUrl(a) == IF HasArg(a) THEN a[1] = <<>> ELSE TRUE

RepoNameOf(url) == replace(Last(split(rstrip(url, "/"), "/")), DotGit, <<>>)

\* what git itself names the directory of `git clone <url>` with no target:
\* trailing slashes and a trailing "/.git" dropped, the last component taken,
\* a ".git" suffix dropped (empty: git refuses to guess and fails)
GitDirNameOf(url) ==
    LET a == rstrip(url, "/")
        b == IF Len(a) > 5 /\ endswith(a, Slash \o DotGit)
             THEN rstrip(SubSeq(a, 1, Len(a) - 5), "/") ELSE a
        c == Last(split(b, "/"))
    IN  IF endswith(c, DotGit) THEN SubSeq(c, 1, Len(c) - 4) ELSE c

----------------------------------------------------------------------------
(* Inputs *)

Host == <<"h", "t", "t", "p", "s", ":", "/", "/", "e", "x", "a", "m", "p", "l", "e", ".", "c", "o", "m", "/">>

UrlInputs == {
    Host \o <<"f", "o", "o", ".", "g", "i", "t">>,
    Host \o <<"f", "o", "o">>,
    Host \o <<"f", "o", "o", ".", "g", "i", "t", "/">>,
    Host \o <<"m", "y", ".", "g", "i", "t", "h", "u", "b", ".", "i", "o">>,
    Host \o <<"f", "o", "o", "/", ".", "g", "i", "t">>,
    <<>> }

ArgvInputs == {<<>>} \cup {<<u>> : u \in UrlInputs}

\* tokens that URLs of the name-derivation check are built from
UrlTokens == {<<"a">>, Slash, DotGit, <<".", "g">>, <<"i", "t">>}

RECURSIVE TokenSeqs(_)
TokenSeqs(n) ==
    IF n = 0 THEN {<<>>}
    ELSE LET shorter == TokenSeqs(n - 1)
         IN  shorter \cup {<<t>> \o s : t \in UrlTokens, s \in {x \in shorter : Len(x) = n - 1}}

TokenUrls == {Flatten(ts) : ts \in TokenSeqs(MaxUrlTokens)}

\* directories that may exist in the working directory before the run
LocalNames == {<<"f", "o", "o">>, <<"m", "y", "h", "u", "b", ".", "i", "o">>}

WfCiYml == <<<<".", "g", "i", "t", "h", "u", "b">>, <<"w", "o", "r", "k", "f", "l", "o", "w", "s">>, <<"c", "i", ".", "y", "m", "l">>>>

WfNotesTxt == <<<<".", "g", "i", "t", "h", "u", "b">>, <<"w", "o", "r", "k", "f", "l", "o", "w", "s">>, <<"n", "o", "t", "e", "s", ".", "t", "x", "t">>>>

WfGoMod == <<<<".", "g", "i", "t", "h", "u", "b">>, <<"w", "o", "r", "k", "f", "l", "o", "w", "s">>, <<"g", "o", ".", "m", "o", "d">>>>

WfEnvironmentYml == <<<<".", "g", "i", "t", "h", "u", "b">>, <<"w", "o", "r", "k", "f", "l", "o", "w", "s">>, <<"e", "n", "v", "i", "r", "o", "n", "m", "e", "n", "t", ".", "y", "m", "l">>>>

WfSubDeployYaml == <<<<".", "g", "i", "t", "h", "u", "b">>, <<"w", "o", "r", "k", "f", "l", "o", "w", "s">>, <<"s", "u", "b">>, <<"d", "e", "p", "l", "o", "y", ".", "y", "a", "m", "l">>>>

OldCiYml == <<<<".", "g", "i", "t", "h", "u", "b">>, <<"w", "o", "r", "k", "f", "l", "o", "w", "s", "-", "o", "l", "d">>, <<"c", "i", ".", "y", "m", "l">>>>

GithubWorkflowsYml == <<<<".", "g", "i", "t", "h", "u", "b">>, <<"w", "o", "r", "k", "f", "l", "o", "w", "s", ".", "y", "m", "l">>>>

SubDirPackageJson == <<<<"s", "u", "b">>, <<"d", "i", "r">>, <<"p", "a", "c", "k", "a", "g", "e", ".", "j", "s", "o", "n">>>>

RootPackageJson == <<<<"p", "a", "c", "k", "a", "g", "e", ".", "j", "s", "o", "n">>>>

ReadmeMd == <<<<"R", "E", "A", "D", "M", "E", ".", "m", "d">>>>

SubCiYml == <<<<"s", "u", "b">>, <<"c", "i", ".", "y", "m", "l">>>>

SubMyPackageJson == <<<<"s", "u", "b">>, <<"m", "y", "p", "a", "c", "k", "a", "g", "e", ".", "j", "s", "o", "n">>>>

CandidateFiles == {
    WfCiYml,
    WfNotesTxt,
    WfGoMod,
    WfEnvironmentYml,
    WfSubDeployYaml,
    OldCiYml,
    GithubWorkflowsYml,
    SubDirPackageJson,
    RootPackageJson,
    ReadmeMd,
    SubCiYml,
    SubMyPackageJson }

EmptyTree == {}

Trees == {t \in SUBSET CandidateFiles : Cardinality(t) <= MaxFiles}

ReturnCodes == {0, 1, 128}

----------------------------------------------------------------------------
(* Output lines and subprocess invocations *)

Line(k, t) == [kind |-> k, text |-> t]

\* mutant: a full clone, --depth 1 left out
CloneCmd_NoDepth(url) == [tool |-> "git", sub |-> "clone", depth |-> <<>>, url |-> url, C |-> <<>>]

\* subprocess.run(["git", "clone", "--depth", "1", url]): no target directory
CloneCmd(url) == [tool |-> "git", sub |-> "clone", depth |-> <<"1">>, url |-> url, C |-> <<>>]

\* subprocess.run(["git", "-C", name, "pull"])
PullCmd(name) == [tool |-> "git", sub |-> "pull", depth |-> <<>>, url |-> <<>>, C |-> name]

\* os.path.exists relative to the working directory
exists(name, d) == name # <<>> /\ (name \in DOMAIN d \/ name \in {<<".">>, <<".", ".">>})

----------------------------------------------------------------------------
(* Lines 35-41: os.walk and the two tests *)

Perms(S) ==
    {f \in [1..Cardinality(S) -> S] : \A i, j \in 1..Cardinality(S) : f[i] = f[j] => i = j}

\* the tree os.walk(name) sees; nothing when the directory is missing
TreeAt(name, d) == IF name # <<>> /\ name \in DOMAIN d THEN d[name] ELSE EmptyTree

IsUnder(p, dir) == Len(p) > Len(dir) /\ SubSeq(p, 1, Len(dir)) = dir

\* names of the non-directory entries of dir
FilesIn(tree, dir) == {p[Len(p)] : p \in {q \in tree : IsUnder(q, dir) /\ Len(q) = Len(dir) + 1}}

\* names of the subdirectories of dir
DirsIn(tree, dir) == {p[Len(dir) + 1] : p \in {q \in tree : IsUnder(q, dir) /\ Len(q) > Len(dir) + 1}}

\* os.path.relpath(os.path.join(root, file), REPO_NAME), root = REPO_NAME/dir
RelPath(dir, file) == join(dir \o <<file>>, Slash)

\* mutant: only .yml is recognised
IsWorkflow_YmlOnly(rel_path, file) ==
    startswith(rel_path, WORKFLOW_DIR) /\ endswith(file, DotYml)

\* mutant: the extension test is left out
IsWorkflow_PrefixOnly(rel_path, file) == startswith(rel_path, WORKFLOW_DIR)

IsWorkflow(rel_path, file) ==
    startswith(rel_path, WORKFLOW_DIR) /\ (endswith(file, DotYml) \/ endswith(file, DotYaml))

\* mutant: the relative path, not the filename, is looked up
IsDependency_RelPath(rel_path, file) == rel_path \in DEPENDENCY_FILES

IsDependency(rel_path, file) == file \in DEPENDENCY_FILES

\* the inner loop over `files` of one directory, applied to a list
RECURSIVE ClassifyFiles(_, _, _)
ClassifyFiles(dir, files, lists) ==
    IF files = <<>> THEN lists
    ELSE LET file == Head(files)
             rel_path == RelPath(dir, file)
             wf == IF IsWorkflow(rel_path, file) THEN Append(lists[1], rel_path) ELSE lists[1]
             df == IF IsDependency(rel_path, file) THEN Append(lists[2], rel_path) ELSE lists[2]
         IN  ClassifyFiles(dir, Tail(files), <<wf, df>>)

----------------------------------------------------------------------------
(* Lines 43-55: the report *)

Section(header, paths) ==
    <<Line(header, <<>>)>> \o
    (IF paths # <<>> THEN [i \in 1..Len(paths) |-> Line("item", paths[i])]
     ELSE <<Line("none found", <<>>)>>)

\* mutant: the second section prints the first list
ReportLines_SameList(wfs, dfs) == Section("Workflow files found:", wfs) \o Section("Dependency files found:", wfs)

ReportLines(wfs, dfs) == Section("Workflow files found:", wfs) \o Section("Dependency files found:", dfs)

----------------------------------------------------------------------------
(* The script *)

Init ==
    /\ pc = "start"
    /\ argv \in ArgvInputs
    /\ REPO_NAME = <<>>
    /\ \E names \in SUBSET LocalNames : disk = [n \in names |-> EmptyTree]
    /\ cmds = <<>>
    /\ returncode = -1
    /\ stack = <<>>
    /\ visited = <<>>
    /\ workflow_files = <<>>
    /\ dependency_files = <<>>
    /\ out = <<>>
    /\ exit_status = -1

\* lines 5-8: no usable URL
Usage ==
    /\ pc = "start"
    /\ NotRepoUrl(argv)
    /\ out' = Append(out, Line("Usage", <<>>))
    /\ exit_status' = 1
    /\ pc' = "done"
    /\ UNCHANGED <<argv, REPO_NAME, disk, cmds, returncode, stack, visited,
                   workflow_files, dependency_files>>

\* lines 5-16
DeriveName ==
    /\ pc = "start"
    /\ ~NotRepoUrl(argv)
    /\ REPO_NAME' = RepoNameOf(argv[1])
    /\ pc' = "acquire"
    /\ UNCHANGED <<argv, disk, cmds, returncode, stack, visited,
                   workflow_files, dependency_files, out, exit_status>>

\* mutant: sys.exit(2) is left out, a failed clone falls through to the walk
Clone_NoExit ==
    /\ pc = "acquire"
    /\ ~exists(REPO_NAME, disk)
    /\ cmds' = Append(cmds, CloneCmd(argv[1]))
    /\ \E r \in ReturnCodes, t \in Trees :
         /\ returncode' = r
         /\ IF r # 0
            THEN /\ t = EmptyTree
                 /\ out' = out \o <<Line("Cloning repository", argv[1]),
                                    Line("Failed to clone repository.", <<>>)>>
                 /\ disk' = disk
            ELSE /\ GitDirNameOf(argv[1]) # <<>>
                 /\ disk' = [n \in DOMAIN disk \cup {GitDirNameOf(argv[1])} |->
                               IF n = GitDirNameOf(argv[1]) THEN t ELSE disk[n]]
                 /\ out' = Append(out, Line("Cloning repository", argv[1]))
         /\ exit_status' = exit_status
         /\ pc' = "classify"
    /\ UNCHANGED <<argv, REPO_NAME, stack, visited, workflow_files, dependency_files>>

\* lines 19-24: the directory is missing, clone
Clone ==
    /\ pc = "acquire"
    /\ ~exists(REPO_NAME, disk)
    /\ cmds' = Append(cmds, CloneCmd(argv[1]))
    /\ \E r \in ReturnCodes, t \in Trees :
         /\ returncode' = r
         /\ IF r # 0
            THEN /\ t = EmptyTree
                 /\ out' = out \o <<Line("Cloning repository", argv[1]),
                                    Line("Failed to clone repository.", <<>>)>>
                 /\ exit_status' = 2
                 /\ pc' = "done"
                 /\ disk' = disk
            ELSE /\ GitDirNameOf(argv[1]) # <<>>
                 /\ disk' = [n \in DOMAIN disk \cup {GitDirNameOf(argv[1])} |->
                               IF n = GitDirNameOf(argv[1]) THEN t ELSE disk[n]]
                 /\ out' = Append(out, Line("Cloning repository", argv[1]))
                 /\ exit_status' = exit_status
                 /\ pc' = "classify"
    /\ UNCHANGED <<argv, REPO_NAME, stack, visited, workflow_files, dependency_files>>

\* lines 25-30: the directory exists, pull
Pull ==
    /\ pc = "acquire"
    /\ exists(REPO_NAME, disk)
    /\ cmds' = Append(cmds, PullCmd(REPO_NAME))
    /\ \E r \in ReturnCodes, t \in Trees :
         /\ returncode' = r
         /\ IF r # 0
            THEN /\ t = EmptyTree
                 /\ out' = out \o <<Line("Repository already exists. Pulling", REPO_NAME),
                                    Line("Failed to pull latest changes.", <<>>)>>
                 /\ exit_status' = 3
                 /\ pc' = "done"
                 /\ disk' = disk
            ELSE /\ disk' = [disk EXCEPT ![REPO_NAME] = t]
                 /\ out' = Append(out, Line("Repository already exists. Pulling", REPO_NAME))
                 /\ exit_status' = exit_status
                 /\ pc' = "classify"
    /\ UNCHANGED <<argv, REPO_NAME, stack, visited, workflow_files, dependency_files>>

\* lines 33-35: the lists and the call of os.walk(REPO_NAME)
BeginWalk ==
    /\ pc = "classify"
    /\ workflow_files' = <<>>
    /\ dependency_files' = <<>>
    /\ stack' = IF exists(REPO_NAME, disk) THEN <<<<>>>> ELSE <<>>
    /\ pc' = "walk"
    /\ UNCHANGED <<argv, REPO_NAME, disk, cmds, returncode, visited, out, exit_status>>

\* lines 35-41: one directory yielded by os.walk, top-down, in scandir order
WalkDir ==
    /\ pc = "walk"
    /\ stack # <<>>
    /\ LET dir == Head(stack)
           tree == TreeAt(REPO_NAME, disk)
       IN  \E files \in Perms(FilesIn(tree, dir)), dirs \in Perms(DirsIn(tree, dir)) :
             LET lists == ClassifyFiles(dir, files, <<workflow_files, dependency_files>>)
             IN  /\ workflow_files' = lists[1]
                 /\ dependency_files' = lists[2]
                 /\ stack' = [i \in 1..Len(dirs) |-> Append(dir, dirs[i])] \o Tail(stack)
                 /\ visited' = Append(visited, dir)
    /\ UNCHANGED <<pc, argv, REPO_NAME, disk, cmds, returncode, out, exit_status>>

\* line 35: os.walk is exhausted
EndWalk ==
    /\ pc = "walk"
    /\ stack = <<>>
    /\ pc' = "report"
    /\ UNCHANGED <<argv, REPO_NAME, disk, cmds, returncode, stack, visited,
                   workflow_files, dependency_files, out, exit_status>>

\* lines 43-55, then the interpreter exits with status 0
Report ==
    /\ pc = "report"
    /\ out' = out \o ReportLines(workflow_files, dependency_files)
    /\ exit_status' = 0
    /\ pc' = "done"
    /\ UNCHANGED <<argv, REPO_NAME, disk, cmds, returncode, stack, visited,
                   workflow_files, dependency_files>>

Next ==
    \/ Usage
    \/ DeriveName
    \/ Clone
    \/ Pull
    \/ BeginWalk
    \/ WalkDir
    \/ EndWalk
    \/ Report

Spec == Init /\ [][Next]_vars

----------------------------------------------------------------------------
(* Lines 5-10 alone, over every URL built from at most MaxUrlTokens tokens *)

InitName ==
    /\ pc = "start"
    /\ argv \in {<<>>} \cup {<<u>> : u \in TokenUrls}
    /\ REPO_NAME = <<>>
    /\ disk = <<>>
    /\ cmds = <<>>
    /\ returncode = -1
    /\ stack = <<>>
    /\ visited = <<>>
    /\ workflow_files = <<>>
    /\ dependency_files = <<>>
    /\ out = <<>>
    /\ exit_status = -1

NextName ==
    \/ Usage
    \/ DeriveName

SpecName == InitName /\ [][NextName]_vars

----------------------------------------------------------------------------
(* Vocabulary of the properties *)

Count(seq, x) == Cardinality({i \in 1..Len(seq) : seq[i] = x})

Finished == pc = "done" /\ exit_status = 0

\* the traversal is over
Classified == pc = "report" \/ Finished

\* the tree the traversal was given
WalkedTree == TreeAt(REPO_NAME, disk)

PathOf(p) == join(p, Slash)

\* p, a sequence of components, is a file below the directory .github/workflows
UnderWorkflowDir(p) ==
    /\ Len(p) >= 3
    /\ p[1] = <<".", "g", "i", "t", "h", "u", "b">>
    /\ p[2] = <<"w", "o", "r", "k", "f", "l", "o", "w", "s">>

HasYamlExtension(name) == endswith(name, DotYml) \/ endswith(name, DotYaml)

Invoked(sub) == Len(cmds) = 1 /\ cmds[1].sub = sub

ReportKinds == {"Workflow files found:", "Dependency files found:", "item", "none found"}

ReportPrinted == \E i \in 1..Len(out) : out[i].kind \in ReportKinds

----------------------------------------------------------------------------
(* C1 *)

----------------------------------------------------------------------------
(* C2 *)

FinalSegment(url) == Last(split(rstrip(url, "/"), "/"))

StripGitSuffix(s) == IF endswith(s, DotGit) THEN SubSeq(s, 1, Len(s) - Len(DotGit)) ELSE s

\* C2: for every non-empty URL the derived directory name is the URL's final
\* path segment with a .git suffix, and nothing else, stripped.
C2_NameIsSegmentWithoutSuffix ==
    pc = "acquire" => REPO_NAME = StripGitSuffix(FinalSegment(argv[1]))

----------------------------------------------------------------------------
(* C3 *)

\* C3: in a run with a URL exactly one subprocess is invoked, chosen by
\* whether the derived directory exists: the pull (and never the clone) when
\* it exists, the depth-1 clone of the URL (and never the pull) when it does not.
C3_OneSubprocessByExistence ==
    /\ [](Len(cmds) <= 1)
    /\ []((pc \in {"start", "acquire"} => cmds = <<>>) /\
          (pc \in {"classify", "walk", "report"} => Len(cmds) = 1) /\
          (pc = "done" /\ REPO_NAME # <<>> => Len(cmds) = 1))
    /\ [][pc = "acquire" =>
            cmds' = <<IF REPO_NAME \in DOMAIN disk
                      THEN [tool |-> "git", sub |-> "pull", depth |-> <<>>,
                            url |-> <<>>, C |-> REPO_NAME]
                      ELSE [tool |-> "git", sub |-> "clone", depth |-> <<"1">>,
                            url |-> argv[1], C |-> <<>>]>>]_vars

\* C3 witness: the directory existed and the run, having pulled, has finished
C3_Witness == Finished /\ Invoked("pull") /\ REPO_NAME \in DOMAIN disk

----------------------------------------------------------------------------
(* C4 *)

\* C4: every path in the workflow-file sequence lies under the directory
\* .github/workflows (its first two components) and its filename ends in
\* .yml or .yaml.
C4_WorkflowFilesUnderDir ==
    \A i \in 1..Len(workflow_files) :
        LET p == split(workflow_files[i], "/")
        IN  UnderWorkflowDir(p) /\ HasYamlExtension(Last(p))

----------------------------------------------------------------------------
(* C5 *)

\* C5: after the traversal every file under .github/workflows whose name ends
\* in .yml or .yaml is in the workflow-file sequence exactly once, and a file
\* under that directory with another extension is not in it.
C5_WorkflowFilesComplete ==
    Classified =>
        \A p \in WalkedTree :
            UnderWorkflowDir(p) =>
                Count(workflow_files, PathOf(p)) = IF HasYamlExtension(Last(p)) THEN 1 ELSE 0

\* C5 witness: a traversed tree held ci.yml, a .yaml file and notes.txt there
C5_Witness ==
    Finished /\ {WfCiYml, WfSubDeployYaml, WfNotesTxt} \subseteq WalkedTree

----------------------------------------------------------------------------
(* C6 *)

\* C6 as stated: .github/workflows/go.mod is placed in both sequences.
C6_GoModInBoth ==
    Classified /\ WfGoMod \in WalkedTree =>
        /\ Count(workflow_files, PathOf(WfGoMod)) >= 1
        /\ Count(dependency_files, PathOf(WfGoMod)) >= 1

\* C6 amended: .github/workflows/go.mod is placed in the dependency-file
\* sequence, once, and not in the workflow-file sequence.
C6_GoModDependencyOnly ==
    Classified /\ WfGoMod \in WalkedTree =>
        /\ Count(workflow_files, PathOf(WfGoMod)) = 0
        /\ Count(dependency_files, PathOf(WfGoMod)) = 1

\* C6 witness: a traversed tree held .github/workflows/go.mod
C6_Witness == Finished /\ WfGoMod \in WalkedTree

----------------------------------------------------------------------------
(* C7 *)

\* C7: a relative path is in the dependency-file sequence iff it is a file of
\* the tree whose final component is one of the 12 manifest names, at any
\* depth, and then exactly once; the workflow check does not affect it, so
\* .github/workflows/environment.yml is in both sequences.
C7_DependencyFilesExact ==
    /\ Cardinality(DEPENDENCY_FILES) = 12
    /\ Classified =>
        /\ \A p \in WalkedTree :
             Count(dependency_files, PathOf(p)) = IF Last(p) \in DEPENDENCY_FILES THEN 1 ELSE 0
        /\ \A i \in 1..Len(dependency_files) :
             \E p \in WalkedTree : dependency_files[i] = PathOf(p)
        /\ WfEnvironmentYml \in WalkedTree =>
             /\ Count(workflow_files, PathOf(WfEnvironmentYml)) = 1
             /\ Count(dependency_files, PathOf(WfEnvironmentYml)) = 1

\* C7 witness: a traversed tree held sub/dir/package.json and
\* .github/workflows/environment.yml
C7_Witness ==
    Finished /\ {SubDirPackageJson, WfEnvironmentYml} \subseteq WalkedTree

----------------------------------------------------------------------------
(* C8 *)

\* the directories of a tree, the root included
DirsOf(tree) == UNION {{SubSeq(p, 1, n) : n \in 0..(Len(p) - 1)} : p \in tree}

\* C8: the traversal starts only after the subprocess has returned 0, the
\* report is printed only after the traversal has finished, a run that failed
\* (status 1, 2 or 3) traversed nothing and printed no report line, and on a
\* missing URL no subprocess was invoked.
C8_AcquireClassifyReport ==
    /\ (pc \in {"walk", "report"} \/ visited # <<>> \/ stack # <<>>) =>
          Len(cmds) = 1 /\ returncode = 0
    /\ ReportPrinted =>
          /\ Finished
          /\ stack = <<>>
          /\ Len(cmds) = 1 /\ returncode = 0
          /\ \A d \in DirsOf(WalkedTree) : Count(visited, d) = 1
    /\ Finished => ReportPrinted
    /\ exit_status \in {1, 2, 3} => visited = <<>> /\ stack = <<>> /\ ~ReportPrinted
    /\ exit_status = 1 => cmds = <<>>

\* C8 witness: a run that traversed at least three directories has reported
C8_Witness == Finished /\ Len(visited) >= 3 /\ ReportPrinted

----------------------------------------------------------------------------
(* C9 *)

IndexOf(kind) == CHOOSE i \in 1..Len(out) : out[i].kind = kind

WorkflowSection ==
    SubSeq(out, IndexOf("Workflow files found:") + 1, IndexOf("Dependency files found:") - 1)

DependencySection == SubSeq(out, IndexOf("Dependency files found:") + 1, Len(out))

HasPlaceholder(section) == \E i \in 1..Len(section) : section[i].kind = "none found"

SectionShows(section, paths) ==
    /\ HasPlaceholder(section) <=> paths = <<>>
    /\ paths = <<>> => Len(section) = 1
    /\ paths # <<>> =>
         /\ Len(section) = Len(paths)
         /\ \A i \in 1..Len(paths) : section[i] = [kind |-> "item", text |-> paths[i]]

\* C9: each report section, independently, shows the placeholder iff its
\* sequence is empty and otherwise one line per entry in sequence order; for
\* an empty tree both sequences are empty and both sections show the placeholder.
C9_ReportSections ==
    Finished =>
        /\ Count([i \in 1..Len(out) |-> out[i].kind], "Workflow files found:") = 1
        /\ Count([i \in 1..Len(out) |-> out[i].kind], "Dependency files found:") = 1
        /\ IndexOf("Workflow files found:") < IndexOf("Dependency files found:")
        /\ SectionShows(WorkflowSection, workflow_files)
        /\ SectionShows(DependencySection, dependency_files)
        /\ WalkedTree = EmptyTree =>
             /\ workflow_files = <<>> /\ dependency_files = <<>>
             /\ HasPlaceholder(WorkflowSection) /\ HasPlaceholder(DependencySection)

\* C9 witness: a report with an empty workflow section and two dependency lines
C9_Witness == Finished /\ workflow_files = <<>> /\ Len(dependency_files) = 2

----------------------------------------------------------------------------
(* C10 *)

\* C10: after a successful clone the derived directory is the one the clone
\* populated: it exists, and its name is the name git gave the clone.
C10_CloneIntoDerivedDirectory ==
    Invoked("clone") /\ returncode = 0 =>
        /\ REPO_NAME = GitDirNameOf(argv[1])
        /\ REPO_NAME \in DOMAIN disk

====
